---- MODULE Spec2Model ----
(***************************************************************************)
(* A model of src/code/demographics_crawler.py: the HTTP fetcher           *)
(* (request_with_retry), the country directory resolver                    *)
(* (extract_country_links), the field extractor (extract_country_data)     *)
(* and the crawl orchestrator (main).                                      *)
(*                                                                         *)
(* Text is a sequence of one-character strings, so that lower-casing,      *)
(* substring search, prefix tests and title-casing are computed.  An href  *)
(* that begins with "/" is the sequence of its "/"-separated segments      *)
(* after the leading slash: "/demographics/chad-demographics/" is          *)
(* <<SegDemographics, SegChad, <<>>>> (the last, empty segment is the      *)
(* trailing slash).                                                        *)
(***************************************************************************)
EXTENDS Integers, Sequences, FiniteSets, TLC

VARIABLES
    pc,         \* position of main / of the function under study
    attempt,    \* request_with_retry: the loop variable `attempt`
    last,       \* the latest GET of request_with_retry and what became of it
    log,        \* the GETs issued and the sleeps taken, in order
    doc,        \* the index document (soup) handed to extract_country_links
    countries,  \* main: `countries`
    i,          \* main: the loop index over countries (1-based)
    records,    \* main: `records`
    failed,     \* main: indexes of the countries whose processing raised
    outputs,    \* the three CSV tables written so far
    error,      \* the exception main has raised, or "none"
    page,       \* extract_country_data: the country document under study
    record      \* extract_country_data: the returned record

vars == <<pc, attempt, last, log, doc, countries, i, records, failed, outputs,
          error, page, record>>

-----------------------------------------------------------------------------
(* Text helpers (Python str methods used by the crawler)                   *)

UpperLetters == <<"A","B","C","D","E","F","G","H","I","J","K","L","M","N","O","P","Q","R","S","T","U","V","W","X","Y","Z">>
LowerLetters == <<"a","b","c","d","e","f","g","h","i","j","k","l","m","n","o","p","q","r","s","t","u","v","w","x","y","z">>

UpperSet == {UpperLetters[k] : k \in 1..26}
LowerSet == {LowerLetters[k] : k \in 1..26}


LowerChar(c) ==
    IF c \in UpperSet THEN LowerLetters[CHOOSE k \in 1..26 : UpperLetters[k] = c] ELSE c

UpperChar(c) ==
    IF c \in LowerSet THEN UpperLetters[CHOOSE k \in 1..26 : LowerLetters[k] = c] ELSE c

\* str.lower()
Lower(s) == [k \in 1..Len(s) |-> LowerChar(s[k])]

\* str.startswith / str.endswith
StartsWith(s, p) == Len(p) <= Len(s) /\ SubSeq(s, 1, Len(p)) = p
EndsWith(s, p) == Len(p) <= Len(s) /\ SubSeq(s, Len(s) - Len(p) + 1, Len(s)) = p

\* `sub in s`
Contains(s, sub) ==
    \E k \in 0..(Len(s) - Len(sub)) : SubSeq(s, k + 1, k + Len(sub)) = sub

\* str.replace(old, new) for a one-character old
ReplaceChar(s, old, new) == [k \in 1..Len(s) |-> IF s[k] = old THEN new ELSE s[k]]

\* str.capitalize() in place of str.title(): only the first character is upper-cased
Capitalize(s) ==
    [k \in 1..Len(s) |-> IF k = 1 THEN UpperChar(s[k]) ELSE LowerChar(s[k])]

\* str.title(): a letter is upper-cased when it follows a non-letter (or starts
\* the string) and lower-cased otherwise
Title(s) ==
    [k \in 1..Len(s) |->
        IF k = 1 \/ s[k - 1] \notin UpperSet \cup LowerSet
        THEN UpperChar(s[k]) ELSE LowerChar(s[k])]

RECURSIVE Concat(_)
Concat(ss) == IF ss = <<>> THEN <<>> ELSE Head(ss) \o Concat(Tail(ss))

-----------------------------------------------------------------------------
(* Configuration (module constants of the crawler)                         *)

BASE_URL == "https://www.worldometers.info"
MAX_RETRIES == 3
\* delays in tenths of a second
RETRY_SLEEP == 20
COUNTRY_SLEEP == 5

SegDemographics == <<"d","e","m","o","g","r","a","p","h","i","c","s">>
SegWorld == <<"w","o","r","l","d">>
SegAbout == <<"a","b","o","u","t">>
SegChad == <<"c","h","a","d","-","d","e","m","o","g","r","a","p","h","i","c","s">>
SegPeru == <<"p","e","r","u">>
SegSaoTome == <<"s","a","o","-","t","o","m","e","-","a","n","d","-","p","r","i","n","c","i","p","e","-","d","e","m","o","g","r","a","p","h","i","c","s">>
SegDot == <<".">>
SegDotDot == <<".",".">>
SUFFIX == <<"-","d","e","m","o","g","r","a","p","h","i","c","s">>

\* urljoin(base, href) for an href that begins with "/": the base's path is
\* dropped and the href's dot segments are removed (RFC 3986); a final "." or
\* ".." leaves a trailing slash
RECURSIVE ResolveSegments(_, _)
ResolveSegments(segs, stack) ==
    IF segs = <<>> THEN stack
    ELSE IF Head(segs) = SegDotDot
         THEN ResolveSegments(Tail(segs),
                 IF stack = <<>> THEN <<>> ELSE SubSeq(stack, 1, Len(stack) - 1))
    ELSE IF Head(segs) = SegDot THEN ResolveSegments(Tail(segs), stack)
    ELSE ResolveSegments(Tail(segs), Append(stack, Head(segs)))

urljoin(base, href) ==
    LET resolved == ResolveSegments(href, <<>>)
        tail == IF href # <<>> /\ href[Len(href)] \in {SegDot, SegDotDot}
                THEN <<<<>>>> ELSE <<>>
        path == resolved \o tail
    IN [base |-> base, path |-> IF path = <<>> THEN <<<<>>>> ELSE path]

START_URL == urljoin(BASE_URL, <<SegDemographics, <<>>>>)

-----------------------------------------------------------------------------
(* Documents.  An index document is the sequence of its relevant nodes in  *)
(* document order:                                                         *)
(*   "h"   an h2/h3 heading whose only child is the string `text`          *)
(*   "ul"  a list; its anchors are the "a" nodes that directly follow it   *)
(*   "div" a div; it runs to the next "div" node or the document's end     *)
(*   "a"   an anchor with an href (segments) and its stripped text         *)

SECTION_TITLE == <<"D","e","m","o","g","r","a","p","h","i","c","s"," ","o","f"," ","C","o","u","n","t","r","i","e","s">>
TitleLower == <<"d","e","m","o","g","r","a","p","h","i","c","s"," ","o","f"," ","c","o","u","n","t","r","i","e","s">>

NameChad == <<"C","h","a","d">>
NamePeru == <<"P","e","r","u">>
NameAbout == <<"A","b","o","u","t">>
NameWorld == <<"W","o","r","l","d">>

Node(t, text, href) == [t |-> t, text |-> text, href |-> href]
Anchor(href, text) == Node("a", text, href)

AnchorChad == Anchor(<<SegDemographics, SegChad, <<>>>>, NameChad)
\* the same page again, linked with an empty text
AnchorChadBare == Anchor(<<SegDemographics, SegChad, <<>>>>, <<>>)
AnchorPeru == Anchor(<<SegDemographics, SegPeru>>, NamePeru)
\* a country page linked with an empty text and a slug of several words
AnchorSaoTome == Anchor(<<SegDemographics, SegSaoTome, <<>>>>, <<>>)
\* an href under the prefix that leaves it once its dot segments are resolved
AnchorUp == Anchor(<<SegDemographics, SegDotDot, SegAbout, <<>>>>, NameAbout)
AnchorWorld == Anchor(<<SegDemographics, SegWorld, <<>>>>, NameWorld)
AnchorAbout == Anchor(<<SegAbout, <<>>>>, NameAbout)

Anchors ==
    {AnchorChad, AnchorChadBare, AnchorPeru, AnchorSaoTome, AnchorUp, AnchorWorld, AnchorAbout}

Nodes ==
    {Node("h", SECTION_TITLE, <<>>), Node("h", TitleLower, <<>>),
     Node("ul", <<>>, <<>>), Node("div", <<>>, <<>>)}
    \cup Anchors

\* the longest index document explored
MaxNodes == 4

RECURSIVE SeqsUpTo(_, _)
SeqsUpTo(S, n) ==
    IF n = 0 THEN {<<>>}
    ELSE LET shorter == SeqsUpTo(S, n - 1)
         IN shorter \cup {Append(s, x) : s \in {t \in shorter : Len(t) = n - 1}, x \in S}

IndexDocs == SeqsUpTo(Nodes, MaxNodes)

IsAnchor(n) == n.t = "a"
IsUl(n) == n.t = "ul"
IsDiv(n) == n.t = "div"

\* find_all("a", href=True) over a run of nodes: its anchors, in document order
RECURSIVE FindAllAnchors(_)
FindAllAnchors(d) ==
    IF d = <<>> THEN <<>>
    ELSE (IF IsAnchor(Head(d)) THEN <<Head(d)>> ELSE <<>>) \o FindAllAnchors(Tail(d))

\* re.compile("Demographics of Countries", re.I), matched on lower-cased text
SectionPattern == Lower(SECTION_TITLE)

\* soup.find(["h2", "h3"], string=re.compile("Demographics of Countries", re.I)):
\* the index of the first such heading at or after k, or 0
IsSection(n) == n.t = "h" /\ Contains(Lower(n.text), SectionPattern)

RECURSIVE FindSectionFrom(_, _)
FindSectionFrom(d, k) ==
    IF k > Len(d) THEN 0
    ELSE IF IsSection(d[k]) THEN k ELSE FindSectionFrom(d, k + 1)

FindSection(d) == FindSectionFrom(d, 1)

\* section.find_next("ul"): the index of the first ul after index s, or 0
RECURSIVE FindNextUl(_, _)
FindNextUl(d, s) ==
    IF s + 1 > Len(d) THEN 0
    ELSE IF IsUl(d[s + 1]) THEN s + 1 ELSE FindNextUl(d, s + 1)

\* the index of the last node of the run of nodes after index k that are
\* anchors (inUl) or are not divs (~inUl)
RECURSIVE RunEnd(_, _, _)
RunEnd(d, k, inUl) ==
    IF k + 1 > Len(d) THEN k
    ELSE IF (inUl /\ ~IsAnchor(d[k + 1])) \/ (~inUl /\ IsDiv(d[k + 1])) THEN k
    ELSE RunEnd(d, k + 1, inUl)

\* ul.find_all("a", href=True): the run of anchors that follows the ul node
UlAnchors(d, u) == SubSeq(d, u + 1, RunEnd(d, u, TRUE))

\* the nodes inside the div that opens at index k
DivContent(d, k) == SubSeq(d, k + 1, RunEnd(d, k, FALSE))

\* div.get_text()
GetText(content) == Concat([k \in 1..Len(content) |-> content[k].text])

\* href.startswith("/demographics/")
HasPrefix(href) == Len(href) >= 2 /\ href[1] = SegDemographics

\* "/world/" in href
HasWorld(href) == \E k \in 1..(Len(href) - 1) : href[k] = SegWorld

IsSlugChar(c) == c \in LowerSet \/ c = "-"
IsSlug(seg) == seg # <<>> /\ \A k \in 1..Len(seg) : IsSlugChar(seg[k])

\* re.search(r"/demographics/[a-z\-]+(-demographics)?/?$", href)
MatchesCountryPattern(href) ==
    \E k \in 1..(Len(href) - 1) :
        /\ href[k] = SegDemographics
        /\ IsSlug(href[k + 1])
        /\ \/ k + 1 = Len(href)
           \/ k + 2 = Len(href) /\ href[k + 2] = <<>>

\* href.strip("/").split("/")[-1]
RECURSIVE StripSlashes(_)
StripSlashes(href) ==
    IF href # <<>> /\ href[Len(href)] = <<>>
    THEN StripSlashes(SubSeq(href, 1, Len(href) - 1))
    ELSE IF href # <<>> /\ Head(href) = <<>> THEN StripSlashes(Tail(href))
    ELSE href

LastSegment(href) ==
    LET s == StripSlashes(href) IN IF s = <<>> THEN <<>> ELSE s[Len(s)]

\* the display name strategy 3 derives from the URL when the link text is empty
SlugName(href) ==
    LET slug == LastSegment(href)
        cut == IF EndsWith(slug, SUFFIX)
               THEN SubSeq(slug, 1, Len(slug) - Len(SUFFIX)) ELSE slug
    IN Title(ReplaceChar(cut, "-", " "))

\* if abs_url not in seen: seen.add(abs_url); links.append((country_name, abs_url))
\* AddLink without the `seen` test
AddLinkNoDedup(acc, name, href) ==
    [links |-> Append(acc.links, [name |-> name, url |-> urljoin(BASE_URL, href)]),
     seen |-> acc.seen \cup {urljoin(BASE_URL, href)}]

AddLink(acc, name, href) ==
    LET abs_url == urljoin(BASE_URL, href)
    IN IF abs_url \in acc.seen THEN acc
       ELSE [links |-> Append(acc.links, [name |-> name, url |-> abs_url]),
             seen |-> acc.seen \cup {abs_url}]

\* the loop bodies of the three strategies, for one anchor
Consider1(acc, a) ==
    IF HasPrefix(a.href) THEN AddLink(acc, a.text, a.href) ELSE acc

Consider2(acc, a) ==
    IF HasPrefix(a.href) /\ ~HasWorld(a.href) THEN AddLink(acc, a.text, a.href) ELSE acc

Consider3(acc, a) ==
    IF HasPrefix(a.href) /\ ~HasWorld(a.href) /\ MatchesCountryPattern(a.href)
    THEN AddLink(acc, IF a.text = <<>> THEN SlugName(a.href) ELSE a.text, a.href)
    ELSE acc

Consider(k, acc, a) ==
    IF k = 1 THEN Consider1(acc, a)
    ELSE IF k = 2 THEN Consider2(acc, a)
    ELSE Consider3(acc, a)

\* `for a in ...find_all("a", href=True):` with the body of strategy k
RECURSIVE Scan(_, _, _)
Scan(acc, anchors, k) ==
    IF anchors = <<>> THEN acc
    ELSE Scan(Consider(k, acc, Head(anchors)), Tail(anchors), k)

\* lines 104-116
Strategy1(acc, d) ==
    LET s == FindSection(d)
        u == IF s = 0 THEN 0 ELSE FindNextUl(d, s)
    IN IF u = 0 THEN acc ELSE Scan(acc, UlAnchors(d, u), 1)

\* lines 121-130: every div whose text holds the title, in document order
RECURSIVE ScanDivs(_, _, _)
ScanDivs(acc, d, k) ==
    IF k > Len(d) THEN acc
    ELSE IF IsDiv(d[k]) /\ Contains(GetText(DivContent(d, k)), SECTION_TITLE)
         THEN ScanDivs(Scan(acc, FindAllAnchors(DivContent(d, k)), 2), d, k + 1)
         ELSE ScanDivs(acc, d, k + 1)

Strategy2(acc, d) == ScanDivs(acc, d, 1)

\* lines 134-149
Strategy3(acc, d) == Scan(acc, FindAllAnchors(d), 3)

NoLinks == [links |-> <<>>, seen |-> {}]

\* the guards `if not links:` of lines 119 and 133
RunsAlways(acc) == TRUE
RunsIfEmpty(acc) == acc.links = <<>>

\* extract_country_links as one function
extract_country_links(d) ==
    LET a1 == Strategy1(NoLinks, d)
        a2 == IF RunsIfEmpty(a1) THEN Strategy2(a1, d) ELSE a1
        a3 == IF RunsIfEmpty(a2) THEN Strategy3(a2, d) ELSE a2
    IN a3.links

-----------------------------------------------------------------------------
(* Regular expressions of extract_country_data, on text.  A search returns *)
(* [found |-> FALSE] or the captured groups of the match Python's re finds *)
(* (the leftmost start, lazy gaps as short as they can be).                *)

\* the character classes \d, \s, [\d.], [\d,] and [\d,\s]
Digits == {"0","1","2","3","4","5","6","7","8","9"}
Newline == "\n"
Spaces == {" ", Newline, "\t"}
DigitsOrDot == Digits \cup {"."}
DigitsOrComma == Digits \cup {","}
DigitsCommaSpaces == DigitsOrComma \cup Spaces

NoMatch == [found |-> FALSE]

\* the last index of the longest run of characters of the class C that starts
\* at k (k - 1 when t[k] is not one)
RunTo(t, k, C) ==
    CHOOSE e \in (k - 1)..Len(t) :
        /\ \A j \in k..e : t[j] \in C
        /\ e = Len(t) \/ t[e + 1] \notin C

\* the literal lit stands at index k of t
At(t, k, lit) == k >= 1 /\ k + Len(lit) - 1 <= Len(t) /\ SubSeq(t, k, k + Len(lit) - 1) = lit

Min(S) == CHOOSE x \in S : \A y \in S : x <= y

\* no newline in t[a..b]: what [^\n]* may span
NoNewline(t, a, b) == \A j \in a..b : t[j] # Newline

KwPeople == <<"p","e","o","p","l","e">>
KwPeoplePerKm == <<"p","e","o","p","l","e"," ","p","e","r"," ","k","m">>
KwCurrently == <<"c","u","r","r","e","n","t","l","y">>
KwPopulationDensity == <<"p","o","p","u","l","a","t","i","o","n"," ","d","e","n","s","i","t","y">>
KwIs == <<"i","s">>

\* \d+\.\d+ starting at k and followed by "%": the index of its last character, or 0
PercentEnd(t, k) ==
    LET m == RunTo(t, k, Digits)
        n == RunTo(t, m + 2, Digits)
    IN IF m >= k /\ m + 1 <= Len(t) /\ t[m + 1] = "." /\ n >= m + 2 /\ At(t, n + 1, <<"%">>)
       THEN n ELSE 0

\* re.search(r"(\d+\.\d+)%", t)
SearchPercent(t) ==
    LET starts == {k \in 1..Len(t) : PercentEnd(t, k) > 0}
    IN IF starts = {} THEN NoMatch
       ELSE [found |-> TRUE, g1 |-> SubSeq(t, Min(starts), PercentEnd(t, Min(starts)))]

\* after the "(" at index k: a run C+ then \s* then "people"; the index of the
\* run's last character, or 0
CountEnd(t, k, C) ==
    LET m == RunTo(t, k + 1, C)
        w == RunTo(t, m + 1, Spaces)
    IN IF m >= k + 1 /\ At(t, w + 1, KwPeople) THEN m ELSE 0

\* re.search(r"\(([\d,]+)\s*people", t)
SearchAbsolute(t) ==
    LET starts == {k \in 1..Len(t) : t[k] = "(" /\ CountEnd(t, k, DigitsOrComma) > 0}
    IN IF starts = {} THEN NoMatch
       ELSE [found |-> TRUE,
             g1 |-> SubSeq(t, Min(starts) + 1, CountEnd(t, Min(starts), DigitsOrComma))]

\* [\d.]+ starting at a and followed by "%": the index of its last character, or 0
LoosePercentEnd(t, a) ==
    LET e == RunTo(t, a, DigitsOrDot)
    IN IF e >= a /\ At(t, e + 1, <<"%">>) THEN e ELSE 0

\* re.search(r"Currently[^\n]*?([\d.]+)%[^\n]*?\(([\d,\s]+)\s*people", t, re.I):
\* <<k, a, b>> is a match when "currently" stands at k, group 1 starts at a,
\* the "(" stands at b and no newline lies in the two gaps
UrbanMatches(t) ==
    LET low == Lower(t)
        K == {k \in 1..Len(t) : At(low, k, KwCurrently)}
        A(k) == {a \in (k + Len(KwCurrently))..Len(t) :
                    /\ LoosePercentEnd(t, a) > 0
                    /\ NoNewline(t, k + Len(KwCurrently), a - 1)}
        B(a) == {b \in (LoosePercentEnd(t, a) + 2)..Len(t) :
                    /\ t[b] = "("
                    /\ NoNewline(t, LoosePercentEnd(t, a) + 2, b - 1)
                    /\ CountEnd(low, b, DigitsCommaSpaces) > 0}
    IN UNION {UNION {{<<k, a, b>> : b \in B(a)} : a \in A(k)} : k \in K}

\* the match the backtracking search finds first: the least k, then a, then b
FirstMatch(M) ==
    CHOOSE m \in M : \A o \in M :
        \/ m[1] < o[1]
        \/ m[1] = o[1] /\ m[2] < o[2]
        \/ m[1] = o[1] /\ m[2] = o[2] /\ m[3] <= o[3]

SearchUrbanText(t) ==
    LET M == UrbanMatches(t)
    IN IF M = {} THEN NoMatch
       ELSE LET m == FirstMatch(M)
            IN [found |-> TRUE,
                g1 |-> SubSeq(t, m[2], LoosePercentEnd(t, m[2])),
                g2 |-> SubSeq(t, m[3] + 1, CountEnd(Lower(t), m[3], DigitsCommaSpaces))]

\* a number \d+\.?\d* starting at k, then \s*, then the literal lit: the index
\* of the number's last character, or 0
DensityEnd(t, k, lit) ==
    LET m == RunTo(t, k, Digits)
        d == IF m + 1 <= Len(t) /\ t[m + 1] = "." THEN RunTo(t, m + 2, Digits) ELSE m
        w == RunTo(t, d + 1, Spaces)
    IN IF m >= k /\ At(t, w + 1, lit) THEN d ELSE 0

\* re.search(r"(\d+\.?\d*)\s*people per km", t)
SearchDensity(t) ==
    LET starts == {k \in 1..Len(t) : DensityEnd(t, k, KwPeoplePerKm) > 0}
    IN IF starts = {} THEN NoMatch
       ELSE [found |-> TRUE,
             g1 |-> SubSeq(t, Min(starts), DensityEnd(t, Min(starts), KwPeoplePerKm))]

\* [\d.]+ starting at a, then \s*, then "people per km": the index of the
\* run's last character, or 0
LooseDensityEnd(t, a) ==
    LET e == RunTo(t, a, DigitsOrDot)
        w == RunTo(t, e + 1, Spaces)
    IN IF e >= a /\ At(t, w + 1, KwPeoplePerKm) THEN e ELSE 0

\* re.search(r"population density[^\n]*?is\s*([\d.]+)\s*people per km", t, re.I):
\* <<k, b>> is a match when "population density" stands at k and "is" at b
DensityMatches(t) ==
    LET low == Lower(t)
        K == {k \in 1..Len(t) : At(low, k, KwPopulationDensity)}
        B(k) == {b \in (k + Len(KwPopulationDensity))..Len(t) :
                    /\ At(low, b, KwIs)
                    /\ NoNewline(t, k + Len(KwPopulationDensity), b - 1)
                    /\ LooseDensityEnd(low, RunTo(t, b + 2, Spaces) + 1) > 0}
    IN UNION {{<<k, b>> : b \in B(k)} : k \in K}

SearchDensityText(t) ==
    LET M == DensityMatches(t)
    IN IF M = {} THEN NoMatch
       ELSE LET m == CHOOSE x \in M : \A o \in M :
                        x[1] < o[1] \/ (x[1] = o[1] /\ x[2] <= o[2])
                a == RunTo(t, m[2] + 2, Spaces) + 1
            IN [found |-> TRUE, g1 |-> SubSeq(t, a, LooseDensityEnd(Lower(t), a))]

-----------------------------------------------------------------------------
(* Country pages and extract_country_data.  A country document is the      *)
(* sequence of its relevant nodes in document order:                       *)
(*   "label" a div of class text-xl with its stripped text                 *)
(*   "block" a div of class p-4; hasValue tells whether it holds a div of  *)
(*           class text-2xl, whose stripped text is `text`                 *)
(*   "h"     an h2/h3 heading with an id and its string                    *)
(*   "p"     a paragraph with its stripped text                            *)
(*   "txt"   text outside any of these                                     *)

NUMERIC_COLUMNS ==
    <<"life_expectancy_both", "life_expectancy_female", "life_expectancy_male",
      "urban_population_percent", "urban_population_absolute", "population_density_km2">>

\* dictionary values: a str, or None
None == [none |-> TRUE, text |-> <<>>]
Str(t) == [none |-> FALSE, text |-> t]

\* record[key] = value
SetKey(rec, key, value) ==
    [k \in DOMAIN rec \cup {key} |-> IF k = key THEN value ELSE rec[k]]

\* key in record
HasKey(rec, key) == key \in DOMAIN rec

\* str.replace(c, "") for the characters of a set
RECURSIVE RemoveChars(_, _)
RemoveChars(t, cs) ==
    IF t = <<>> THEN <<>>
    ELSE (IF Head(t) \in cs THEN <<>> ELSE <<Head(t)>>) \o RemoveChars(Tail(t), cs)

PNode(t, id, text, hasValue) == [t |-> t, id |-> id, text |-> text, hasValue |-> hasValue]

KwBoth == <<"b","o","t","h"," ","s","e","x","e","s">>
KwFemales == <<"f","e","m","a","l","e","s">>
KwMales == <<"m","a","l","e","s">>
UrbanPattern == <<"u","r","b","a","n"," ","p","o","p","u","l","a","t","i","o","n">>
DensityPattern == <<"p","o","p","u","l","a","t","i","o","n"," ","d","e","n","s","i","t","y">>

\* block.find_previous("div", class_=re.compile("text-xl", re.I)): the index of
\* the nearest label before index k, or 0
RECURSIVE FindPreviousLabel(_, _)
FindPreviousLabel(pg, k) ==
    IF k <= 1 THEN 0
    ELSE IF pg[k - 1].t = "label" THEN k - 1 ELSE FindPreviousLabel(pg, k - 1)

\* ClassifyBlock with "males" tested before "females"
ClassifyBlockMalesFirst(rec, pg, k) ==
    LET l == FindPreviousLabel(pg, k)
    IN IF l = 0 \/ ~pg[k].hasValue THEN rec
       ELSE LET label == Lower(pg[l].text)
                value == Str(RemoveChars(pg[k].text, {","}))
            IN IF Contains(label, KwBoth) THEN SetKey(rec, "life_expectancy_both", value)
               ELSE IF Contains(label, KwMales) THEN SetKey(rec, "life_expectancy_male", value)
               ELSE IF Contains(label, KwFemales) THEN SetKey(rec, "life_expectancy_female", value)
               ELSE rec

\* lines 165-176, for the block at index k
ClassifyBlock(rec, pg, k) ==
    LET l == FindPreviousLabel(pg, k)
    IN IF l = 0 \/ ~pg[k].hasValue THEN rec
       ELSE LET label == Lower(pg[l].text)
                value == Str(RemoveChars(pg[k].text, {","}))
            IN IF Contains(label, KwBoth) THEN SetKey(rec, "life_expectancy_both", value)
               ELSE IF Contains(label, KwFemales) THEN SetKey(rec, "life_expectancy_female", value)
               ELSE IF Contains(label, KwMales) THEN SetKey(rec, "life_expectancy_male", value)
               ELSE rec

\* for block in soup.find_all("div", class_="p-4")
RECURSIVE LifeExpectancy(_, _, _)
LifeExpectancy(rec, pg, k) ==
    IF k > Len(pg) THEN rec
    ELSE LifeExpectancy(IF pg[k].t = "block" THEN ClassifyBlock(rec, pg, k) ELSE rec, pg, k + 1)

\* the index of the first heading at or after k that `which` accepts, or 0
IsUrbById(n) == n.t = "h" /\ n.id = "urb"
IsUrbByText(n) == n.t = "h" /\ Contains(Lower(n.text), UrbanPattern)
IsDensityHeading(n) == n.t = "h" /\ Contains(Lower(n.text), DensityPattern)

Accepts(which, n) ==
    IF which = "urb_id" THEN IsUrbById(n)
    ELSE IF which = "urb_text" THEN IsUrbByText(n)
    ELSE IF which = "density" THEN IsDensityHeading(n)
    ELSE n.t = "p"

RECURSIVE FindFrom(_, _, _)
FindFrom(pg, k, which) ==
    IF k > Len(pg) THEN 0
    ELSE IF Accepts(which, pg[k]) THEN k ELSE FindFrom(pg, k + 1, which)

\* soup.find(["h2", "h3"], id="urb") or soup.find(["h2", "h3"], string=re.compile("Urban Population", re.I))
FindUrbanHeading(pg) ==
    IF FindFrom(pg, 1, "urb_id") # 0 THEN FindFrom(pg, 1, "urb_id")
    ELSE FindFrom(pg, 1, "urb_text")

\* heading.find_next("p"): the text of the first paragraph after the heading at
\* index h, as a one-element sequence, or <<>> when there is no heading or paragraph
NextParagraph(pg, h) ==
    IF h = 0 \/ FindFrom(pg, h + 1, "p") = 0 THEN <<>>
    ELSE <<pg[FindFrom(pg, h + 1, "p")].text>>

\* lines 180-195
UrbanStructured(rec, pg) ==
    LET para == NextParagraph(pg, FindUrbanHeading(pg))
    IN IF para = <<>> THEN rec
       ELSE LET percent_match == SearchPercent(para[1])
                absolute_match == SearchAbsolute(para[1])
                r1 == IF percent_match.found
                      THEN SetKey(rec, "urban_population_percent", Str(percent_match.g1))
                      ELSE rec
            IN IF absolute_match.found
               THEN SetKey(r1, "urban_population_absolute",
                           Str(RemoveChars(absolute_match.g1, {","})))
               ELSE r1

\* soup.get_text("\n"): the document's strings joined by newlines
RECURSIVE JoinLines(_)
JoinLines(ts) ==
    IF ts = <<>> THEN <<>>
    ELSE IF Len(ts) = 1 THEN Head(ts)
    ELSE Head(ts) \o <<Newline>> \o JoinLines(Tail(ts))

PageText(pg) ==
    JoinLines(SelectSeq([k \in 1..Len(pg) |-> pg[k].text], LAMBDA t : t # <<>>))

\* UrbanFallback without the re.sub of line 208
UrbanFallbackKeepsSeparators(rec, pg) ==
    IF ~HasKey(rec, "urban_population_percent") \/ ~HasKey(rec, "urban_population_absolute")
    THEN LET m_urban == SearchUrbanText(PageText(pg))
         IN IF m_urban.found
            THEN SetKey(SetKey(rec, "urban_population_percent", Str(m_urban.g1)),
                        "urban_population_absolute", Str(m_urban.g2))
            ELSE rec
    ELSE rec

\* lines 198-208
UrbanFallback(rec, pg) ==
    IF ~HasKey(rec, "urban_population_percent") \/ ~HasKey(rec, "urban_population_absolute")
    THEN LET m_urban == SearchUrbanText(PageText(pg))
         IN IF m_urban.found
            THEN SetKey(SetKey(rec, "urban_population_percent", Str(m_urban.g1)),
                        "urban_population_absolute",
                        Str(RemoveChars(m_urban.g2, Spaces \cup {","})))
            ELSE rec
    ELSE rec

\* lines 212-219
DensityStructured(rec, pg) ==
    LET para == NextParagraph(pg, FindFrom(pg, 1, "density"))
    IN IF para = <<>> THEN rec
       ELSE LET density_match == SearchDensity(para[1])
            IN IF density_match.found
               THEN SetKey(rec, "population_density_km2", Str(density_match.g1))
               ELSE rec

\* lines 222-230
DensityFallback(rec, pg) ==
    IF ~HasKey(rec, "population_density_km2")
    THEN LET m_density == SearchDensityText(PageText(pg))
         IN IF m_density.found
            THEN SetKey(rec, "population_density_km2", Str(m_density.g1))
            ELSE rec
    ELSE rec

\* FillMissing that forgets the keys it does not find
FillNothing(rec) == rec

\* for key in NUMERIC_COLUMNS: record.setdefault(key, None)
FillMissing(rec) ==
    [k \in DOMAIN rec \cup {NUMERIC_COLUMNS[j] : j \in 1..Len(NUMERIC_COLUMNS)} |->
        IF k \in DOMAIN rec THEN rec[k] ELSE None]

\* extract_country_data, from the fetched document on (lines 161-236)
extract_country_data(name, pg) ==
    LET r0 == [k \in {"country"} |-> Str(name)]
        r1 == LifeExpectancy(r0, pg, 1)
        r2 == UrbanFallback(UrbanStructured(r1, pg), pg)
        r3 == DensityFallback(DensityStructured(r2, pg), pg)
    IN FillMissing(r3)

-----------------------------------------------------------------------------
(* The country documents explored                                          *)

LabelBoth == <<"B","o","t","h"," ","S","e","x","e","s">>
LabelFemales == <<"F","e","m","a","l","e","s">>
LabelMales == <<"M","a","l","e","s">>
LabelOther == <<"I","n","f","a","n","t","s">>
ValueLife == <<"7","3",".","2">>
UrbanTitle == <<"U","r","b","a","n"," ","P","o","p","u","l","a","t","i","o","n">>
UrbanShort == <<"U","r","b","a","n">>
DensityTitle == <<"P","o","p","u","l","a","t","i","o","n"," ","D","e","n","s","i","t","y">>
ParaUrbanFull == <<"5","4",".","3","%"," ","(","1",",","2","3","4"," ","p","e","o","p","l","e",")">>
ParaUrbanPct == <<"6","0",".","1","%"," ","u","r","b","a","n">>
ParaDensity == <<"2","5",".","5"," ","p","e","o","p","l","e"," ","p","e","r"," ","k","m","2">>
TextCurrently == <<"C","u","r","r","e","n","t","l","y",","," ","5","4",".","3","%"," ","o","f"," ","t","h","e"," ","p","o","p","u","l","a","t","i","o","n"," ","i","s"," ","u","r","b","a","n"," ","(","1",",","2","3","4",",","5","6","7"," ","p","e","o","p","l","e"," ","i","n"," ","2","0","2","1",")">>
TextDensity == <<"T","h","e"," ","p","o","p","u","l","a","t","i","o","n"," ","d","e","n","s","i","t","y"," ","i","s"," ","2","5"," ","p","e","o","p","l","e"," ","p","e","r"," ","K","m","2">>

PageNodes ==
    {PNode("label", "", LabelBoth, FALSE), PNode("label", "", LabelFemales, FALSE),
     PNode("label", "", LabelMales, FALSE), PNode("label", "", LabelOther, FALSE),
     PNode("block", "", ValueLife, TRUE), PNode("block", "", <<>>, FALSE),
     PNode("h", "urb", UrbanShort, FALSE), PNode("h", "", UrbanTitle, FALSE),
     PNode("h", "", DensityTitle, FALSE),
     PNode("p", "", ParaUrbanFull, FALSE), PNode("p", "", ParaUrbanPct, FALSE),
     PNode("p", "", ParaDensity, FALSE),
     PNode("txt", "", TextCurrently, FALSE), PNode("txt", "", TextDensity, FALSE)}

\* the longest country document explored
MaxPageNodes == 3

Pages == SeqsUpTo(PageNodes, MaxPageNodes)

-----------------------------------------------------------------------------
(* convert_numeric_fields, save_head and sort_values                       *)

HEAD_ROWS == 10

\* the six numeric keys as a set
NumericKeys == {NUMERIC_COLUMNS[j] : j \in 1..Len(NUMERIC_COLUMNS)}

\* pd.DataFrame(records).columns: every key of every record
Columns(rs) == UNION {DOMAIN rs[k] : k \in 1..Len(rs)}

\* pd.DataFrame(records): a row per record, a missing cell is NaN (None)
DataFrame(rs) ==
    [k \in 1..Len(rs) |->
        [c \in Columns(rs) |-> IF c \in DOMAIN rs[k] THEN rs[k][c] ELSE None]]

\* pd.to_numeric(s, errors="coerce") for one cell already turned to str.  A
\* cell parses when it is a float literal: an optional sign, digits with at
\* most one decimal point, an optional exponent; the words "inf" and
\* "infinity" in any letter case parse to the float infinity; anything else
\* ("None" and "nan" too) is NaN
IsDecimal(t) ==
    /\ \E k \in 1..Len(t) : t[k] \in Digits
    /\ \A k \in 1..Len(t) : t[k] \in DigitsOrDot
    /\ Cardinality({k \in 1..Len(t) : t[k] = "."}) <= 1

Unsigned(t) == IF t # <<>> /\ Head(t) \in {"+", "-"} THEN Tail(t) ELSE t

IsFloatLiteral(t) ==
    LET u == Unsigned(t)
        E == {k \in 1..Len(u) : u[k] \in {"e", "E"}}
    IN IF E = {} THEN IsDecimal(u)
       ELSE /\ Cardinality(E) = 1
            /\ IsDecimal(SubSeq(u, 1, Min(E) - 1))
            /\ LET x == Unsigned(SubSeq(u, Min(E) + 1, Len(u)))
               IN x # <<>> /\ \A k \in 1..Len(x) : x[k] \in Digits

IsInfinity(t) ==
    Lower(Unsigned(t)) \in {<<"i","n","f">>, <<"i","n","f","i","n","i","t","y">>}

\* the float infinity, written as to_csv writes it
Infinity(t) ==
    Str((IF t # <<>> /\ Head(t) = "-" THEN <<"-">> ELSE <<>>) \o <<"i","n","f">>)

\* lines 247-252 for one cell
ToNumeric(cell) ==
    IF cell.none THEN None
    ELSE LET cleaned == RemoveChars(cell.text, {",", " "})
         IN IF IsFloatLiteral(cleaned) THEN Str(cleaned)
            ELSE IF IsInfinity(cleaned) THEN Infinity(cleaned)
            ELSE None

\* lines 245-253
convert_numeric_fields(df) ==
    [k \in 1..Len(df) |->
        [c \in DOMAIN df[k] |-> IF c \in NumericKeys THEN ToNumeric(df[k][c]) ELSE df[k][c]]]

\* df.head(10)
Head10(df) == SubSeq(df, 1, IF Len(df) < HEAD_ROWS THEN Len(df) ELSE HEAD_ROWS)

\* the order of str: by code point, character by character
CharOrder ==
    <<" ", "-", ".", "0","1","2","3","4","5","6","7","8","9">> \o UpperLetters \o LowerLetters
Ord(c) == CHOOSE k \in 1..Len(CharOrder) : CharOrder[k] = c

RECURSIVE TextLess(_, _)
TextLess(a, b) ==
    IF b = <<>> THEN FALSE
    ELSE IF a = <<>> THEN TRUE
    ELSE IF Head(a) = Head(b) THEN TextLess(Tail(a), Tail(b))
    ELSE Ord(Head(a)) < Ord(Head(b))

\* df.sort_values("country"): rows by country, equal countries in their old order
RECURSIVE InsertRow(_, _)
InsertRow(sorted, row) ==
    IF sorted = <<>> THEN <<row>>
    ELSE IF TextLess(row["country"].text, Head(sorted)["country"].text)
         THEN <<row>> \o sorted
         ELSE <<Head(sorted)>> \o InsertRow(Tail(sorted), row)

\* the frame as it is, the sorted copy dropped
Unsorted(df) == df

RECURSIVE SortByCountry(_)
SortByCountry(df) ==
    IF df = <<>> THEN <<>>
    ELSE InsertRow(SortByCountry(SubSeq(df, 1, Len(df) - 1)), df[Len(df)])

-----------------------------------------------------------------------------
(* request_with_retry.  A GET ends in a response (a status and a body) or  *)
(* in an exception of requests that is neither HTTPError nor RuntimeError. *)

PHRASE == <<"c","h","e","c","k","i","n","g"," ","y","o","u","r"," ","b","r","o","w","s","e","r">>

BodyClean == <<"o","k">>
BodyMixed == <<"C","h","e","c","k","i","n","g"," ","y","o","u","r"," ","b","r","o","w","s","e","r">>
BodyEmbedded == <<".",".","c","h","e","c","k","i","n","g"," ","y","o","u","r"," ","b","r","o","w","s","e","r",".",".">>
BodyPartial == <<"c","h","e","c","k","i","n","g"," ","y","o","u","r">>

Bodies == {BodyClean, BodyMixed, BodyEmbedded, BodyPartial}
Statuses == {200, 304, 404, 503}

Responses == [kind : {"response"}, status : Statuses, text : Bodies]
NetworkErrors == [kind : {"exception"}, type : {"ConnectionError", "Timeout"}]

\* resp.raise_for_status(): HTTPError for a 4xx or 5xx status
RaisesForStatus(resp) == resp.status >= 400 /\ resp.status < 600

\* "checking your browser" in resp.text, without the .lower()
IsChallengeCaseSensitive(resp) == Contains(resp.text, PHRASE)

\* "checking your browser" in resp.text.lower()
IsChallenge(resp) == Contains(Lower(resp.text), PHRASE)

\* what the body of the `try` raises for the outcome o of requests.get, or "none"
Raised(o) ==
    IF o.kind = "exception" THEN o.type
    ELSE IF RaisesForStatus(o) THEN "HTTPError"
    ELSE IF IsChallenge(o) THEN "RuntimeError"
    ELSE "none"

\* an `except Exception` in place of line 81
CaughtAny(type) == TRUE

\* `except (requests.HTTPError, RuntimeError)`
Caught(type) == type \in {"HTTPError", "RuntimeError"}

\* `attempt == MAX_RETRIES + 1` in place of line 82
LastAttemptOffByOne(a) == a = MAX_RETRIES + 1

\* `if attempt == MAX_RETRIES: raise`
LastAttempt(a) == a = MAX_RETRIES

Outcomes == Responses \cup NetworkErrors

Get(url) == [op |-> "get", url |-> url, t |-> 0]
Sleep(t) == [op |-> "sleep", url |-> START_URL, t |-> t]

Fetching == pc \in {"fetch_index", "fetch_country"}
CurrentUrl == IF pc = "fetch_index" THEN START_URL ELSE countries[i].url

Attempted(o, what) == [url |-> CurrentUrl, attempt |-> attempt, resp |-> o, outcome |-> what]

\* a failed country ends the loop (a `break` in the handler of line 290)
RaiseBreaks(type) ==
    IF pc = "fetch_index"
    THEN /\ pc' = "raised"
         /\ error' = type
         /\ UNCHANGED <<attempt, failed, i>>
    ELSE /\ failed' = failed \cup {i}
         /\ i' = i + 1
         /\ attempt' = 1
         /\ pc' = "finish"
         /\ error' = error

\* a failed country is tried again from its first attempt instead of skipped
RaiseTriesAgain(type) ==
    IF pc = "fetch_index"
    THEN /\ pc' = "raised"
         /\ error' = type
         /\ UNCHANGED <<attempt, failed, i>>
    ELSE /\ failed' = failed \cup {i}
         /\ i' = i
         /\ attempt' = 1
         /\ pc' = "fetch_country"
         /\ error' = error

\* main's handling of an exception out of fetch_html: the index fetch is not
\* guarded, a country's is (`except Exception`, line 290) and the loop goes on
Raise(type) ==
    IF pc = "fetch_index"
    THEN /\ pc' = "raised"
         /\ error' = type
         /\ UNCHANGED <<attempt, failed, i>>
    ELSE /\ failed' = failed \cup {i}
         /\ i' = i + 1
         /\ attempt' = 1
         /\ pc' = IF i = Len(countries) THEN "finish" ELSE "fetch_country"
         /\ error' = error

\* FetchRetry without the time.sleep of line 85
FetchRetryNoDelay ==
    /\ Fetching
    /\ \E o \in Outcomes :
          /\ Raised(o) # "none"
          /\ Caught(Raised(o))
          /\ ~LastAttempt(attempt)
          /\ last' = Attempted(o, "retry")
    /\ log' = Append(log, Get(CurrentUrl))
    /\ attempt' = attempt + 1
    /\ UNCHANGED <<pc, doc, countries, i, records, failed, outputs, error, page, record>>

\* lines 81-85: the attempt's exception is caught and attempts remain: the
\* crawler sleeps and tries again
FetchRetry ==
    /\ Fetching
    /\ \E o \in Outcomes :
          /\ Raised(o) # "none"
          /\ Caught(Raised(o))
          /\ ~LastAttempt(attempt)
          /\ last' = Attempted(o, "retry")
    /\ log' = log \o <<Get(CurrentUrl), Sleep(RETRY_SLEEP)>>
    /\ attempt' = attempt + 1
    /\ UNCHANGED <<pc, doc, countries, i, records, failed, outputs, error, page, record>>

\* the attempt's exception leaves request_with_retry: it is not caught, or it
\* is caught on the last attempt and re-raised (line 83)
FetchRaises ==
    /\ Fetching
    /\ \E o \in Outcomes :
          /\ Raised(o) # "none"
          /\ ~Caught(Raised(o)) \/ LastAttempt(attempt)
          /\ last' = Attempted(o, "raised")
          /\ Raise(Raised(o))
    /\ log' = Append(log, Get(CurrentUrl))
    /\ UNCHANGED <<doc, countries, records, outputs, page, record>>

-----------------------------------------------------------------------------
(* main                                                                    *)

Heading == Node("h", SECTION_TITLE, <<>>)
Ul == Node("ul", <<>>, <<>>)

\* the index documents the crawl is run on: none, two and three country links
MainIndexDocs ==
    {<<>>,
     <<Heading, Ul, AnchorPeru, AnchorChad>>,
     <<Heading, Ul, AnchorChadBare, AnchorPeru, AnchorUp>>}

\* the country documents the crawl is run on
MainPages ==
    {<<>>,
     <<PNode("label", "", LabelFemales, FALSE), PNode("block", "", ValueLife, TRUE),
       PNode("h", "", DensityTitle, FALSE), PNode("p", "", ParaDensity, FALSE)>>}

\* ensure_output_dir()
MainStart ==
    /\ pc = "start"
    /\ pc' = "fetch_index"
    /\ UNCHANGED <<attempt, last, log, doc, countries, i, records, failed,
                   outputs, error, page, record>>

\* soup = fetch_html(START_URL): the attempt that returns
FetchIndexReturns ==
    /\ pc = "fetch_index"
    /\ \E resp \in Responses :
          /\ Raised(resp) = "none"
          /\ last' = Attempted(resp, "returned")
    /\ log' = Append(log, Get(START_URL))
    /\ doc' \in MainIndexDocs
    /\ pc' = "resolve"
    /\ UNCHANGED <<attempt, countries, i, records, failed, outputs, error, page, record>>

\* main without the test of line 277
CheckCountriesNoRaise ==
    /\ pc = "resolved"
    /\ pc' = IF countries = <<>> THEN "finish" ELSE "fetch_country"
    /\ attempt' = 1
    /\ i' = 1
    /\ records' = <<>>
    /\ UNCHANGED <<last, log, doc, countries, failed, outputs, error, page, record>>

\* lines 275-282: no link is fatal, otherwise the loop starts
CheckCountries ==
    /\ pc = "resolved"
    /\ IF countries = <<>>
       THEN pc' = "raised" /\ error' = "RuntimeError"
       ELSE pc' = "fetch_country" /\ error' = error
    /\ attempt' = 1
    /\ i' = 1
    /\ records' = <<>>
    /\ UNCHANGED <<last, log, doc, countries, failed, outputs, page, record>>

\* lines 284-289: the country's fetch returns, its record is appended, the
\* crawler sleeps
FetchCountryReturns ==
    /\ pc = "fetch_country"
    /\ \E resp \in Responses :
          /\ Raised(resp) = "none"
          /\ last' = Attempted(resp, "returned")
    /\ \E pg \in MainPages :
          /\ page' = pg
          /\ record' = extract_country_data(countries[i].name, pg)
    /\ records' = Append(records, record')
    /\ log' = log \o <<Get(CurrentUrl), Sleep(COUNTRY_SLEEP)>>
    /\ i' = i + 1
    /\ attempt' = 1
    /\ pc' = IF i = Len(countries) THEN "finish" ELSE "fetch_country"
    /\ UNCHANGED <<doc, countries, failed, outputs, error>>

\* lines 294-305 when some record was collected
WriteOutputs ==
    /\ pc = "finish"
    /\ records # <<>>
    /\ LET df_demographics == convert_numeric_fields(DataFrame(records))
       IN outputs' = [data |-> df_demographics,
                      before_sort |-> Head10(df_demographics),
                      after_sort |-> Head10(SortByCountry(df_demographics))]
    /\ pc' = "done"
    /\ UNCHANGED <<attempt, last, log, doc, countries, i, records, failed,
                   error, page, record>>

\* lines 294-304 when no record was collected: the frame has no column, so
\* sort_values("country") raises KeyError after two tables were written
SortFails ==
    /\ pc = "finish"
    /\ records = <<>>
    /\ outputs' = [outputs EXCEPT !.data = <<>>, !.before_sort = <<>>]
    /\ pc' = "raised"
    /\ error' = "KeyError"
    /\ UNCHANGED <<attempt, last, log, doc, countries, i, records, failed,
                   page, record>>

\* no GET yet, no table written yet, no record yet
NoAttempt == [url |-> START_URL, attempt |-> 0, resp |-> [kind |-> "none"], outcome |-> "none"]
NoOutputs == [data |-> "unwritten", before_sort |-> "unwritten", after_sort |-> "unwritten"]
NoRecord == [k \in {} |-> None]

Init ==
    /\ pc = "start"
    /\ attempt = 1 /\ last = NoAttempt /\ log = <<>>
    /\ doc = <<>> /\ countries = <<>> /\ i = 1 /\ records = <<>> /\ failed = {}
    /\ outputs = NoOutputs
    /\ error = "none"
    /\ page = <<>> /\ record = NoRecord

-----------------------------------------------------------------------------
(* The directory resolver on its own                                       *)

\* countries = extract_country_links(soup)
ResolveLinks ==
    /\ pc = "resolve"
    /\ countries' = extract_country_links(doc)
    /\ pc' = "resolved"
    /\ UNCHANGED <<attempt, last, log, doc, i, records, failed, outputs, error,
                   page, record>>

Next ==
    \/ MainStart
    \/ FetchRetry
    \/ FetchRaises
    \/ FetchIndexReturns
    \/ ResolveLinks
    \/ CheckCountries
    \/ FetchCountryReturns
    \/ WriteOutputs
    \/ SortFails

Spec == Init /\ [][Next]_vars


\* the resolver alone, on every index document up to MaxNodes nodes
InitLinks ==
    /\ pc = "resolve"
    /\ doc \in IndexDocs
    /\ attempt = 1 /\ last = NoAttempt /\ log = <<>>
    /\ countries = <<>> /\ i = 1 /\ records = <<>> /\ failed = {}
    /\ outputs = NoOutputs /\ error = "none"
    /\ page = <<>> /\ record = NoRecord

NextLinks == ResolveLinks

SpecLinks == InitLinks /\ [][NextLinks]_vars

\* record = extract_country_data(country_name, country_url), the fetch aside
ExtractData ==
    /\ pc = "extract"
    /\ record' = extract_country_data(countries[i].name, page)
    /\ pc' = "extracted"
    /\ UNCHANGED <<attempt, last, log, doc, countries, i, records, failed,
                   outputs, error, page>>

\* the field extractor alone, on every country document up to MaxPageNodes nodes
InitData ==
    /\ pc = "extract"
    /\ page \in Pages
    /\ countries = <<[name |-> NameChad, url |-> urljoin(BASE_URL, AnchorChad.href)]>>
    /\ i = 1
    /\ doc = <<>>
    /\ attempt = 1 /\ last = NoAttempt /\ log = <<>>
    /\ records = <<>> /\ failed = {}
    /\ outputs = NoOutputs /\ error = "none"
    /\ record = NoRecord

NextData == ExtractData

SpecData == InitData /\ [][NextData]_vars

-----------------------------------------------------------------------------
(* The end of main on its own (lines 293-305): the state after the loop,   *)
(* for directories of up to MaxRecords links and for one country whose     *)
(* life-expectancy value is any short text                                 *)

\* the most links of a directory explored
MaxRecords == 11

\* the longest life-expectancy value text explored
MaxCellLen == 3

TableNames == {NameChad, NamePeru}

\* the directories explored: up to MaxRecords links named Peru, except for none,
\* one or two of them, anywhere, named Chad
NameLists ==
    UNION {{[k \in 1..n |-> IF k \in {a, b} THEN NameChad ELSE NamePeru] : a, b \in 0..n} :
              n \in 1..MaxRecords}

\* the value texts: what get_text(strip=True) can return over seven characters
Cells ==
    {t \in SeqsUpTo({"7", ".", ",", " ", "i", "n", "f"}, MaxCellLen) :
        t = <<>> \/ (t[1] # " " /\ t[Len(t)] # " ")}

\* the index document that lists the names, one anchor each, the k-th link's
\* slug being k letters
DirectoryOf(names) ==
    <<Heading, Ul>> \o
    [k \in 1..Len(names) |-> Anchor(<<SegDemographics, [j \in 1..k |-> "a"]>>, names[k])]

\* the country document that shows the value text under the label "Both Sexes"
PageOf(cell) ==
    <<PNode("label", "", LabelBoth, FALSE), PNode("block", "", cell, TRUE)>>

\* the indexes of the links that did not fail, in order
Kept(n, failedLinks) == SelectSeq([k \in 1..n |-> k], LAMBDA k : k \notin failedLinks)

\* the state main is in after its loop, when the links of `failedLinks` raised
\* a ConnectionError and every other country's document was pg
AfterLoop(names, failedLinks, pg) ==
    /\ pc = "finish"
    /\ doc = DirectoryOf(names)
    /\ countries = extract_country_links(doc)
    /\ i = Len(countries) + 1
    /\ failed = failedLinks
    /\ page = IF Kept(Len(countries), failed) = <<>> THEN <<>> ELSE pg
    /\ records = [j \in 1..Len(Kept(Len(countries), failed)) |->
                     extract_country_data(countries[Kept(Len(countries), failed)[j]].name, pg)]
    /\ record = IF records = <<>> THEN NoRecord ELSE records[Len(records)]
    /\ log = <<Get(START_URL)>> \o
             Concat([k \in 1..Len(countries) |->
                        IF k \in failed THEN <<Get(countries[k].url)>>
                        ELSE <<Get(countries[k].url), Sleep(COUNTRY_SLEEP)>>])
    /\ attempt = 1
    /\ last = [url |-> countries[Len(countries)].url, attempt |-> 1,
               resp |-> IF Len(countries) \in failed
                        THEN [kind |-> "exception", type |-> "ConnectionError"]
                        ELSE [kind |-> "response", status |-> 200, text |-> BodyClean],
               outcome |-> IF Len(countries) \in failed THEN "raised" ELSE "returned"]
    /\ outputs = NoOutputs
    /\ error = "none"

InitTables ==
    \/ \E names \in NameLists, failedLinks \in {{}, {1}} :
          AfterLoop(names, failedLinks, <<>>)
    \/ \E cell \in Cells : AfterLoop(<<NamePeru>>, {}, PageOf(cell))

NextTables == WriteOutputs \/ SortFails

SpecTables == InitTables /\ [][NextTables]_vars

-----------------------------------------------------------------------------
(* The fetcher's and the orchestrator's claims, under Spec                 *)

\* the number of GETs the log holds for a URL
Gets(url) == Cardinality({k \in 1..Len(log) : log[k] = Get(url)})

\* the URLs requested so far
Requested == {log[k].url : k \in {j \in 1..Len(log) : log[j].op = "get"}}

\* the bodies that hold the bot-challenge phrase in some letter case
ChallengeBodies == {BodyMixed, BodyEmbedded}

\* the latest attempt got a response with an HTTP error status or a challenge body
LastFailedRetryably ==
    /\ last.resp.kind = "response"
    /\ last.resp.status >= 400 \/ last.resp.text \in ChallengeBodies

\* the indexes of the countries processed so far that did not fail, in order
Succeeded ==
    SelectSeq([k \in 1..Len(countries) |-> k],
              LAMBDA k : k < i /\ k \notin failed)

\* C1: no URL is requested more than 3 times; when the 3rd attempt fails
\* retryably its exception leaves request_with_retry, which ends main for the
\* index page and skips the country otherwise, without a record
C1_AtMostThreeAttempts ==
    /\ \A u \in Requested : Gets(u) <= MAX_RETRIES
    /\ last.attempt <= MAX_RETRIES
    /\ (LastFailedRetryably /\ last.attempt = MAX_RETRIES) =>
          /\ last.outcome = "raised"
          /\ Gets(last.url) = MAX_RETRIES
          /\ IF last.url = START_URL
             THEN pc = "raised" /\ error \in {"HTTPError", "RuntimeError"} /\ records = <<>>
             ELSE /\ pc \in {"fetch_country", "finish", "done", "raised"}
                  /\ countries[i - 1].url = last.url
                  /\ (i - 1) \in failed
                  /\ Len(records) = (i - 1) - Cardinality(failed)

\* a country page answered with the challenge three times and was given up,
\* and the crawl went on to its end
C1_Witness ==
    /\ pc = "done"
    /\ last.url # START_URL
    /\ last.attempt = MAX_RETRIES
    /\ last.resp.kind = "response"
    /\ last.resp.status = 200
    /\ last.resp.text \in ChallengeBodies
    /\ last.outcome = "raised"

\* C2 as stated: a response that is not 2xx or holds the phrase is never
\* returned and is retried while attempts remain; a 2xx response without the
\* phrase is returned at once
C2_Non2xxIsRetryable ==
    last.resp.kind = "response" =>
        /\ (last.resp.status \notin 200..299 \/ last.resp.text \in ChallengeBodies) =>
              /\ last.outcome # "returned"
              /\ last.attempt < MAX_RETRIES => last.outcome = "retry"
        /\ (last.resp.status \in 200..299 /\ last.resp.text \notin ChallengeBodies) =>
              last.outcome = "returned"

\* C2 as amended: a response with an HTTP error status (4xx, 5xx) or with the
\* phrase in any letter case is never returned and is retried while attempts
\* remain; any other response is returned at once
C2_ErrorStatusIsRetryable ==
    last.resp.kind = "response" =>
        /\ (last.resp.status \in 400..599 \/ last.resp.text \in ChallengeBodies) =>
              /\ last.outcome # "returned"
              /\ last.attempt < MAX_RETRIES => last.outcome = "retry"
              /\ last.attempt = MAX_RETRIES => last.outcome = "raised"
        /\ (last.resp.status \notin 400..599 /\ last.resp.text \notin ChallengeBodies) =>
              last.outcome = "returned"

\* a 200 response with the phrase in mixed case was retried
C2_Witness ==
    /\ last.resp.kind = "response"
    /\ last.resp.status = 200
    /\ last.resp.text = BodyMixed
    /\ last.outcome = "retry"
    /\ last.attempt = 2

\* C3: an exception of requests.get that is neither HTTPError nor RuntimeError
\* leaves request_with_retry on the attempt where it occurs: that GET is the
\* latest event (no sleep follows it) and the URL's last GET
C3_OtherErrorsPropagate ==
    last.resp.kind = "exception" =>
        /\ last.outcome = "raised"
        /\ log # <<>> /\ log[Len(log)] = Get(last.url)
        /\ Gets(last.url) = last.attempt
        /\ IF last.url = START_URL
           THEN pc = "raised" /\ error = last.resp.type
           ELSE (i - 1) \in failed /\ countries[i - 1].url = last.url

\* a country's second attempt, after one retry, ended in a timeout
C3_Witness ==
    /\ last.resp.kind = "exception"
    /\ last.resp.type = "Timeout"
    /\ last.attempt = 2
    /\ last.url # START_URL
    /\ pc = "fetch_country"

\* C4: the records are those of the countries that did not fail, one each, in
\* the order of their links
C4_PerItemIsolation ==
    /\ pc \in {"fetch_country", "finish", "done"} =>
          /\ Len(records) = Len(Succeeded)
          /\ \A j \in 1..Len(records) :
                records[j]["country"] = Str(countries[Succeeded[j]].name)
    /\ pc \in {"finish", "done"} =>
          /\ Len(records) = Len(countries) - Cardinality(failed)
          /\ failed \subseteq 1..Len(countries)

\* the second of three countries failed, the first and the third have records
C4_Witness ==
    /\ pc = "done"
    /\ Len(countries) = 3
    /\ failed = {2}
    /\ Len(records) = 2
    /\ records[1]["country"] = Str(countries[1].name)
    /\ records[2]["country"] = Str(countries[3].name)

\* C5: once the directory is resolved and non-empty main does not raise,
\* whichever countries fail, and ends with the three tables written
C5_CountryFailuresNeverAbort ==
    countries # <<>> =>
        /\ pc # "raised"
        /\ pc = "done" => \A f \in DOMAIN outputs : outputs[f] # "unwritten"

\* C6: when the index fetch fails, or the directory is empty, main raises, no
\* country page is requested and no table is written
IndexFetchFailed == last.url = START_URL /\ last.outcome = "raised"
DirectoryEmpty == pc \notin {"start", "fetch_index", "resolve", "resolved"} /\ countries = <<>>

C6_FatalAborts ==
    (IndexFetchFailed \/ DirectoryEmpty) =>
        /\ pc = "raised"
        /\ error # "KeyError"
        /\ Requested \subseteq {START_URL}
        /\ outputs = NoOutputs
        /\ records = <<>>

\* the index page was fetched and held no country link
C6_Witness ==
    /\ pc = "raised"
    /\ error = "RuntimeError"
    /\ last.outcome = "returned"
    /\ countries = <<>>
    /\ outputs = NoOutputs

\* the links whose processing has ended
Consumed == {k \in 1..Len(countries) : k < i}

\* C11: every record has a non-empty country, which is the name of exactly one
\* consumed link, and no two records have the same country
C11_CountryIdentifiesLink ==
    \A j \in 1..Len(records) :
        /\ records[j]["country"].text # <<>>
        /\ Cardinality({k \in Consumed : countries[k].name = records[j]["country"].text}) = 1
        /\ \A k \in 1..Len(records) : k # j => records[k]["country"] # records[j]["country"]

\* the GETs of country pages, in the order they were made
CountryGets == SelectSeq(log, LAMBDA e : e.op = "get" /\ e.url # START_URL)

\* the position of a URL in the directory
LinkIndex(url) == CHOOSE k \in 1..Len(countries) : countries[k].url = url

\* C14: between the requests for two consecutive country links the log holds a
\* delay of 0.5 s, whether the earlier country succeeded or failed
C14_DelayBetweenCountries ==
    \A a, b \in 1..Len(log) :
        (/\ a < b
         /\ log[a].op = "get" /\ log[a].url # START_URL
         /\ log[b].op = "get" /\ log[b].url # START_URL
         /\ log[a].url # log[b].url
         /\ \A c \in (a + 1)..(b - 1) : log[c].op # "get")
        => \E c \in (a + 1)..(b - 1) : log[c] = Sleep(COUNTRY_SLEEP)

\* C15: the links are processed once each in directory order: the requests
\* never go back to an earlier link, a link behind the cursor was requested in
\* one call (1..3 GETs) and ended in a record or a skip, a link ahead of it was
\* not requested yet, and a call that has ended is the one just behind the cursor
C15_OncePerLinkInOrder ==
    (pc \in {"fetch_country", "finish", "done", "raised"} /\ countries # <<>>) =>
        /\ \A a, b \in 1..Len(CountryGets) :
              a < b => LinkIndex(CountryGets[a].url) <= LinkIndex(CountryGets[b].url)
        /\ \A k \in 1..Len(countries) :
              /\ k < i => Gets(countries[k].url) \in 1..MAX_RETRIES
              /\ k = i => Gets(countries[k].url) = attempt - 1
              /\ k > i => Gets(countries[k].url) = 0
        /\ failed \subseteq Consumed
        /\ Cardinality(Consumed) = Len(records) + Cardinality(failed)
        /\ (last.url # START_URL /\ last.outcome \in {"raised", "returned"}) =>
              (i > 1 /\ last.url = countries[i - 1].url)

\* the first of three links failed after three attempts and was not requested
\* again; the two others followed in order
C15_Witness ==
    /\ pc = "done"
    /\ Len(countries) = 3
    /\ failed = {1}
    /\ Len(CountryGets) = 5
    /\ CountryGets[3].url = countries[1].url
    /\ CountryGets[4].url = countries[2].url
    /\ CountryGets[5].url = countries[3].url

Largest(S) == CHOOSE x \in S : \A y \in S : y <= x

\* the positions in the log of the GETs of the latest call of request_with_retry
CallGets == {j \in 1..Len(log) : log[j] = Get(last.url)}

\* the delays of 2 s taken from the call's first GET to its latest one
CallDelays ==
    {j \in 1..Len(log) :
        /\ log[j] = Sleep(RETRY_SLEEP)
        /\ \E a, b \in CallGets : a < j /\ j < b}

\* C21: a call whose latest attempt is the k-th has made k GETs with one delay
\* of 2 s, and nothing else, between each two consecutive ones (k - 1 delays);
\* a fetch that returns takes no further delay of 2 s, and a failure that is
\* raised (on the 3rd attempt when it is retryable, with 2 delays before it)
\* is the latest event, with no delay after it
C21_BackoffPlacement ==
    last.outcome # "none" =>
        /\ Cardinality(CallGets) = last.attempt
        /\ Cardinality(CallDelays) = last.attempt - 1
        /\ \A j \in CallGets :
              j # Largest(CallGets) => (log[j + 1] = Sleep(RETRY_SLEEP) /\ (j + 2) \in CallGets)
        /\ last.outcome = "returned" =>
              \A j \in Largest(CallGets)..Len(log) : log[j] # Sleep(RETRY_SLEEP)
        /\ last.outcome = "raised" => Largest(CallGets) = Len(log)
        /\ (last.outcome = "raised" /\ last.resp.kind = "response") =>
              (last.attempt = MAX_RETRIES /\ Cardinality(CallDelays) = MAX_RETRIES - 1)

\* a country page was fetched on its third attempt, after two delays
C21_Witness ==
    /\ last.outcome = "returned"
    /\ last.attempt = MAX_RETRIES
    /\ last.url # START_URL
    /\ Cardinality(CallDelays) = MAX_RETRIES - 1

-----------------------------------------------------------------------------
(* The field extractor's claims, under SpecData                            *)

\* the keyword a life-expectancy label is classified by
LabelClass(text) ==
    IF Contains(Lower(text), KwBoth) THEN "life_expectancy_both"
    ELSE IF Contains(Lower(text), KwFemales) THEN "life_expectancy_female"
    ELSE IF Contains(Lower(text), KwMales) THEN "life_expectancy_male"
    ELSE "none"

\* whether the two full-page-text searches match on the document
TextMatches(pg) ==
    [urban |-> SearchUrbanText(PageText(pg)).found,
     density |-> SearchDensityText(PageText(pg)).found]

\* some strategy of the field's chain matches on the document, `text` being
\* what the full-page-text searches find on it
Matched(key, pg, text) ==
    IF key \in {"life_expectancy_both", "life_expectancy_female", "life_expectancy_male"}
    THEN \E k \in 1..Len(pg) :
            /\ pg[k].t = "block" /\ pg[k].hasValue
            /\ FindPreviousLabel(pg, k) # 0
            /\ LabelClass(pg[FindPreviousLabel(pg, k)].text) = key
    ELSE LET upara == NextParagraph(pg, FindUrbanHeading(pg))
             dpara == NextParagraph(pg, FindFrom(pg, 1, "density"))
         IN IF key = "urban_population_percent"
            THEN (upara # <<>> /\ SearchPercent(upara[1]).found) \/ text.urban
            ELSE IF key = "urban_population_absolute"
            THEN (upara # <<>> /\ SearchAbsolute(upara[1]).found) \/ text.urban
            ELSE (dpara # <<>> /\ SearchDensity(dpara[1]).found) \/ text.density

\* C10: the record holds the six numeric keys whatever the document; a field
\* that no strategy matches is None, a field that one matches is a str
C10_SixKeysAlways ==
    pc = "extracted" =>
        LET text == TextMatches(page)
        IN /\ DOMAIN record = NumericKeys \cup {"country"}
           /\ \A key \in NumericKeys :
                 IF Matched(key, page, text) THEN ~record[key].none ELSE record[key] = None

\* a document on which one field is found and the five others are not
C10_Witness ==
    /\ pc = "extracted"
    /\ page # <<>>
    /\ ~record["life_expectancy_female"].none
    /\ \A key \in NumericKeys \ {"life_expectancy_female"} : record[key] = None

\* the paragraphs the structured urban and density strategies read, as
\* one-element sequences (<<>> when the heading or the paragraph is missing)
UrbanPara == NextParagraph(page, FindUrbanHeading(page))
DensityPara == NextParagraph(page, FindFrom(page, 1, "density"))

\* C13: a value the structured strategy recovers from the paragraph after the
\* heading is the value of the record, whatever the full-page text holds
C13_FirstSuccessWins ==
    pc = "extracted" =>
        /\ (UrbanPara # <<>> /\ SearchPercent(UrbanPara[1]).found) =>
              record["urban_population_percent"] = Str(SearchPercent(UrbanPara[1]).g1)
        /\ (UrbanPara # <<>> /\ SearchAbsolute(UrbanPara[1]).found) =>
              record["urban_population_absolute"] =
                  Str(RemoveChars(SearchAbsolute(UrbanPara[1]).g1, {","}))
        /\ (DensityPara # <<>> /\ SearchDensity(DensityPara[1]).found) =>
              record["population_density_km2"] = Str(SearchDensity(DensityPara[1]).g1)

\* the page has an urban heading (id "urb" or the string "Urban Population")
\* with a paragraph after it
UrbanHeadings == {PNode("h", "urb", UrbanShort, FALSE), PNode("h", "", UrbanTitle, FALSE)}
HasUrbanStructure ==
    \E h, p \in 1..Len(page) : h < p /\ page[h] \in UrbanHeadings /\ page[p].t = "p"

\* the page's text holds the sentence "Currently, 54.3% of the population is
\* urban (1,234,567 people in 2021)"
HasCurrentlySentence ==
    \E k \in 1..Len(page) : page[k] = PNode("txt", "", TextCurrently, FALSE)

\* the record after convert_numeric_fields
Normalized == convert_numeric_fields(DataFrame(<<record>>))[1]

\* C17: on a page without the urban heading/paragraph structure whose text
\* holds the sentence, the record has the percent 54.3 and the count 1234567,
\* commas removed, and normalization keeps them
C17_UrbanFallbackSentence ==
    (pc = "extracted" /\ ~HasUrbanStructure /\ HasCurrentlySentence) =>
        /\ record["urban_population_percent"] = Str(<<"5","4",".","3">>)
        /\ record["urban_population_absolute"] = Str(<<"1","2","3","4","5","6","7">>)
        /\ Normalized["urban_population_percent"] = Str(<<"5","4",".","3">>)
        /\ Normalized["urban_population_absolute"] = Str(<<"1","2","3","4","5","6","7">>)

\* the sentence stands after an urban heading that no paragraph follows
C17_Witness ==
    /\ pc = "extracted"
    /\ Len(page) = 3
    /\ page[2] \in UrbanHeadings
    /\ page[3] = PNode("txt", "", TextCurrently, FALSE)
    /\ ~HasUrbanStructure
    /\ record["urban_population_absolute"] = Str(<<"1","2","3","4","5","6","7">>)

\* the field a label stands for
LabelKey(text) ==
    IF text = LabelBoth THEN "life_expectancy_both"
    ELSE IF text = LabelFemales THEN "life_expectancy_female"
    ELSE IF text = LabelMales THEN "life_expectancy_male"
    ELSE "none"

\* the blocks of the page that have a value and whose nearest earlier label
\* stands for the field
BlocksOf(key) ==
    {k \in 1..Len(page) :
        /\ page[k].t = "block" /\ page[k].hasValue
        /\ \E l \in 1..(k - 1) : page[l].t = "label"
        /\ LabelKey(page[Largest({l \in 1..(k - 1) : page[l].t = "label"})].text) = key}

\* C20: each life-expectancy field is the value of the last block whose label
\* stands for it ("Females" for the female field only), and None when no
\* block with a label and a value stands for it
C20_LabelPrecedence ==
    pc = "extracted" =>
        \A key \in {"life_expectancy_both", "life_expectancy_female", "life_expectancy_male"} :
            IF BlocksOf(key) = {} THEN record[key] = None
            ELSE record[key] = Str(page[Largest(BlocksOf(key))].text)

\* a block labelled "Females" set the female field and left the male one, and
\* a block under an unknown label set nothing
C20_Witness ==
    /\ pc = "extracted"
    /\ page = <<PNode("label", "", LabelFemales, FALSE), PNode("block", "", ValueLife, TRUE),
                PNode("label", "", LabelOther, FALSE)>>
         \/ page = <<PNode("label", "", LabelOther, FALSE), PNode("block", "", ValueLife, TRUE)>>
    /\ page[1].text = LabelFemales => record["life_expectancy_female"] = Str(ValueLife)
    /\ record["life_expectancy_male"] = None
    /\ record["life_expectancy_both"] = None

-----------------------------------------------------------------------------
(* The directory resolver's claims, under SpecLinks                        *)

\* the country-page path prefix: the site base followed by /demographics/
UrlHasPrefix(url) == url.base = BASE_URL /\ HasPrefix(url.path)

\* the links a strategy's anchors stand for, before deduplication: the anchors
\* in its scope that pass its test, in document order
AsLink(a) == [name |-> a.text, url |-> urljoin(BASE_URL, a.href)]
AsLink3(a) ==
    [name |-> IF a.text = <<>> THEN SlugName(a.href) ELSE a.text,
     url |-> urljoin(BASE_URL, a.href)]

Passes1(a) == HasPrefix(a.href)
Passes2(a) == HasPrefix(a.href) /\ ~HasWorld(a.href)
Passes3(a) == Passes2(a) /\ MatchesCountryPattern(a.href)

Candidates1(d) ==
    LET s == FindSection(d)
        u == IF s = 0 THEN 0 ELSE FindNextUl(d, s)
        found == IF u = 0 THEN <<>> ELSE SelectSeq(UlAnchors(d, u), Passes1)
    IN [k \in 1..Len(found) |-> AsLink(found[k])]

TitledDiv(d, k) == IsDiv(d[k]) /\ Contains(GetText(DivContent(d, k)), SECTION_TITLE)
InTitledDiv(d, k) ==
    \E j \in 1..(k - 1) : TitledDiv(d, j) /\ \A m \in (j + 1)..k : ~IsDiv(d[m])

Candidates2(d) ==
    LET at == SelectSeq([k \in 1..Len(d) |-> k],
                        LAMBDA k : IsAnchor(d[k]) /\ InTitledDiv(d, k) /\ Passes2(d[k]))
    IN [k \in 1..Len(at) |-> AsLink(d[at[k]])]

Candidates3(d) ==
    LET found == SelectSeq(d, LAMBDA n : IsAnchor(n) /\ Passes3(n))
    IN [k \in 1..Len(found) |-> AsLink3(found[k])]

\* the candidates of the first strategy that has any
ChainCandidates(d) ==
    IF Candidates1(d) # <<>> THEN Candidates1(d)
    ELSE IF Candidates2(d) # <<>> THEN Candidates2(d)
    ELSE Candidates3(d)

\* a sequence of links with every link dropped whose URL occurred earlier
FirstOccurrences(ls) ==
    LET keep == SelectSeq([k \in 1..Len(ls) |-> k],
                          LAMBDA k : \A m \in 1..(k - 1) : ls[m].url # ls[k].url)
    IN [k \in 1..Len(keep) |-> ls[keep[k]]]

\* C7: the list extract_country_links returns holds no URL twice, and every
\* URL in it starts with the country-page path prefix
C7_UniquePrefixedUrls ==
    pc = "resolved" =>
        /\ \A a, b \in 1..Len(countries) : a # b => countries[a].url # countries[b].url
        /\ \A k \in 1..Len(countries) : UrlHasPrefix(countries[k].url)

\* C8: strategy 2 adds links only when strategy 1 left none, strategy 3 only
\* when strategies 1 and 2 left none; so the result is exactly what the first
\* strategy that yields anything yields on its own
C8_OrderedChain ==
    LET r1 == Strategy1(NoLinks, doc).links
        r2 == Strategy2(NoLinks, doc).links
        r3 == Strategy3(NoLinks, doc).links
    IN pc = "resolved" =>
          countries = IF r1 # <<>> THEN r1 ELSE IF r2 # <<>> THEN r2 ELSE r3

\* strategy 1 yielded links while strategy 3, had it run, would have yielded others
C8_Witness ==
    /\ pc = "resolved"
    /\ Strategy1(NoLinks, doc).links # <<>>
    /\ Strategy3(NoLinks, doc).links # <<>>
    /\ Strategy3(NoLinks, doc).links # Strategy1(NoLinks, doc).links
    /\ countries = Strategy1(NoLinks, doc).links

\* C9: the returned links are the candidates in document order with every
\* later anchor of an already seen absolute URL dropped, so each URL keeps the
\* name of its first anchor
C9_FirstSeenDedup ==
    pc = "resolved" => countries = FirstOccurrences(ChainCandidates(doc))

\* two anchors with different names led to one URL, and the first one's name was kept
C9_Witness ==
    /\ pc = "resolved"
    /\ \E a, b \in 1..Len(ChainCandidates(doc)) :
          /\ a < b
          /\ ChainCandidates(doc)[a].url = ChainCandidates(doc)[b].url
          /\ ChainCandidates(doc)[a].name # ChainCandidates(doc)[b].name
          /\ \E k \in 1..Len(countries) : countries[k] = ChainCandidates(doc)[a]
          /\ \A k \in 1..Len(countries) : countries[k] # ChainCandidates(doc)[b]
    /\ Len(countries) < Len(ChainCandidates(doc))

\* the display name each country slug of the explored documents stands for
NameSaoTome == <<"S","a","o"," ","T","o","m","e"," ","A","n","d"," ","P","r","i","n","c","i","p","e">>
ExpectedName(slug) ==
    IF slug = SegSaoTome THEN NameSaoTome
    ELSE IF slug = SegChad THEN NameChad
    ELSE IF slug = SegPeru THEN NamePeru
    ELSE <<>>

\* the anchors of the explored documents that link a country page
CountryAnchors == {AnchorChad, AnchorChadBare, AnchorPeru, AnchorSaoTome}

\* the first country anchor of the document that leads to the URL
FirstAnchorTo(url) ==
    doc[Min({j \in 1..Len(doc) :
                doc[j] \in CountryAnchors /\ [base |-> BASE_URL, path |-> doc[j].href] = url})]

\* C18: when strategies 1 and 2 find nothing, a link whose first anchor has an
\* empty text is named after its slug (sao-tome-and-principe-demographics
\* gives "Sao Tome And Principe") and a link whose first anchor has a text
\* keeps that text
C18_SlugDerivedNames ==
    (pc = "resolved" /\ Candidates1(doc) = <<>> /\ Candidates2(doc) = <<>>) =>
        \A k \in 1..Len(countries) :
            /\ \E j \in 1..Len(doc) :
                  doc[j] \in CountryAnchors /\ [base |-> BASE_URL, path |-> doc[j].href] = countries[k].url
            /\ countries[k].name =
                  IF FirstAnchorTo(countries[k].url).text = <<>>
                  THEN ExpectedName(FirstAnchorTo(countries[k].url).href[2])
                  ELSE FirstAnchorTo(countries[k].url).text

\* a document without heading or titled div: the anchor without text got the
\* name of its slug, the anchor with a text kept it
C18_Witness ==
    /\ pc = "resolved"
    /\ doc = <<AnchorSaoTome, AnchorPeru, AnchorChadBare>>
    /\ Len(countries) = 3
    /\ countries[1].name = NameSaoTome
    /\ countries[2].name = NamePeru
    /\ countries[3].name = NameChad

-----------------------------------------------------------------------------
(* The claims on the tables, under SpecTables                              *)

\* a decimal number: digits with at most one point, nothing else
FiniteDecimal(t) ==
    /\ \A k \in 1..Len(t) : t[k] \in {"0","1","2","3","4","5","6","7","8","9","."}
    /\ \E k \in 1..Len(t) : t[k] # "."
    /\ \A j, k \in 1..Len(t) : (t[j] = "." /\ t[k] = ".") => j = k

\* C12: after convert_numeric_fields every numeric field of every row of the
\* record table is null or a finite decimal number without separator or blank
C12_NullOrFiniteDecimal ==
    pc = "done" =>
        \A j \in 1..Len(outputs.data) : \A key \in NumericKeys :
            outputs.data[j][key].none \/ FiniteDecimal(outputs.data[j][key].text)

\* the country names of the rows of a table
CountriesOf(df) == [k \in 1..Len(df) |-> df[k]["country"].text]

\* the number of records named Chad, the smaller of the two names
NumChad == Cardinality({k \in 1..Len(records) : records[k]["country"].text = NameChad})

FirstTen(n) == IF n < 10 THEN n ELSE 10

\* C16: the record table is in the order of the records, the first preview is
\* its first 10 rows, and the second preview is the first 10 rows of the
\* records ordered by country (every Chad before every Peru)
C16_DiscoveryAndSortedOrder ==
    (pc = "done" /\ \A k \in 1..Len(records) : records[k]["country"].text \in TableNames) =>
        /\ CountriesOf(outputs.data) = CountriesOf(records)
        /\ Len(outputs.before_sort) = FirstTen(Len(records))
        /\ \A k \in 1..Len(outputs.before_sort) : outputs.before_sort[k] = outputs.data[k]
        /\ Len(outputs.after_sort) = FirstTen(Len(records))
        /\ \A k \in 1..Len(outputs.after_sort) :
              /\ outputs.after_sort[k]["country"].text =
                    IF k <= NumChad THEN NameChad ELSE NamePeru
              /\ \E j \in 1..Len(outputs.data) : outputs.data[j] = outputs.after_sort[k]

\* eleven records, the only Chad last: it is first in the sorted preview and
\* absent from the unsorted one, and the full table still ends with it
C16_Witness ==
    /\ pc = "done"
    /\ Len(records) = 11
    /\ NumChad = 1
    /\ outputs.data[11]["country"].text = NameChad
    /\ Len(outputs.before_sort) = 10
    /\ outputs.before_sort[1]["country"].text = NamePeru
    /\ Len(outputs.after_sort) = 10
    /\ outputs.after_sort[1]["country"].text = NameChad

====
